---------------------------- MODULE Spec2Model ----------------------------
(***************************************************************************)
(* Model of the chess-coach background pipeline (apps/backend/app):        *)
(* worker.py (import_chesscom_games, analyze_games, generate_puzzles),     *)
(* services/chesscom.py, services/pgn.py, services/stockfish.py,           *)
(* services/puzzles.py and the tables of models.py.                        *)
(*                                                                         *)
(* One subject (username) is modelled.  RQ workers run jobs one after the  *)
(* other; the HTTP process serves PGN uploads.  Every database commit of   *)
(* a service session is one step; the ledger row of a job (AnalysisJob) is *)
(* written by the commits of the job's own session.                        *)
(***************************************************************************)
EXTENDS Integers, Sequences, FiniteSets

(***************************************************************************)
(* Bounds of the model.                                                    *)
(***************************************************************************)
MaxRuns == 3          \* jobs enqueued in one behaviour
MaxUploads == 1       \* PGN uploads served in one behaviour
MaxFaults == 1        \* fault events (broker, engine, upstream outage, commit)
MaxMonths == 2        \* months of the date range of an import
MaxPlies == 2         \* longest game, in plies
MaxEvents == 3        \* events published to the broker in one behaviour
MaxMate == 2          \* longest mate distance the engine reports
MaxTotal == 50        \* largest total_items of the job row counted on its own

(***************************************************************************)
(* Program constants.                                                      *)
(***************************************************************************)
batch_size == 10      \* worker.py: batch_size = 10
retry_total == 3      \* chesscom.py: Retry(total=3, ...)

NULL == -1            \* a nullable column holding None

Workers == {"w1", "w2"}
Api == "api"
Actors == Workers \cup {Api}

JobTypes == {"import", "analyze", "puzzle"}
Terminal == {"completed", "failed"}

VARIABLES
    games,      \* table games of the subject: Seq of pgn texts, id = index
    moves,      \* table moves: Seq of [game, ply, tag], id = index
    puzzles,    \* table puzzles: Seq of [source_move_id], id = index
    ledger,     \* table analysis_jobs: Seq of rows, id = index
    pc,         \* position of each actor in its function
    jid,        \* the ledger row (job) a worker is running, 0 if none
    fetched,    \* import: `games` returned by get_user_games
    work,       \* analyze: games without moves; puzzle: blunders (ids)
    idx,        \* loop index (months, batches, games, blunders)
    count,      \* saved_count / analyzed_count / generated_count
    batch,      \* the list a save_games call is saving
    pending,    \* rows added to a service session and not yet committed
    engine,     \* engine process of a worker's StockfishService
    lastEvent,  \* last progress event a worker published
    result,     \* how the worker function ended
    hist,       \* what happened in the current run of a worker
    archive,    \* upstream: the monthly archives of the subject
    enabled,    \* the workers that take jobs
    types,      \* the job types enqueued
    started,    \* jobs started so far
    uploads,    \* uploads served so far
    faults,     \* faults injected so far
    genAt,      \* sizes of the moves table over which a puzzle run committed
    published,  \* broker: the events published, in order, id = index
    sockets,    \* the websocket connections of routes/websocket.py
    http,       \* one call of _get_monthly_games and its retry state
    unit,       \* one ply under analyze_game and the puzzle made of it
    tally       \* the counters of one job row as its loop updates them

vars == <<games, moves, puzzles, ledger, pc, jid, fetched, work, idx, count,
          batch, pending, engine, lastEvent, result, hist, archive, enabled,
          types, started, uploads, faults, genAt, published, sockets, http,
          unit, tally>>

dbVars == <<games, moves, puzzles>>
\* what no step of the worker functions changes: the upstream and the
\* queues, and the state of the components studied on their own below
envVars == <<archive, enabled, types, published, sockets, http, unit,
            tally>>

\* the state of the worker functions and of the tables
pipeVars == <<games, moves, puzzles, ledger, pc, jid, fetched, work, idx, count,
              batch, pending, engine, lastEvent, result, hist, archive, enabled,
              types, started, uploads, faults, genAt>>

----------------------------------------------------------------------------
(***************************************************************************)
(* Sequence helpers.                                                       *)
(***************************************************************************)
Range(s) == {s[i] : i \in DOMAIN s}

Min(a, b) == IF a <= b THEN a ELSE b

Iota(n) == [i \in 1..n |-> i]

(***************************************************************************)
(* PGN texts are numbers.  Text 0 is the empty string.  The fixture below  *)
(* fixes, for each text, the number of mainline plies python-chess reads   *)
(* from it and the plies the engine's swing classifies as blunders.        *)
(***************************************************************************)
NumPlies(t) == t % (MaxPlies + 1)

IsBlunder(t, p) == (t + p) % 2 = 0

MoveRow(g, t, p) ==
    [game |-> g, ply |-> p,
     tag |-> IF IsBlunder(t, p) THEN "blunder" ELSE "none"]

\* StockfishService.analyze_game when every ply up to n evaluates
MovesData(g, t, n) == [p \in 1..n |-> MoveRow(g, t, p)]

(***************************************************************************)
(* AnalysisJob rows.                                                       *)
(***************************************************************************)
NewJob(type) ==
    [job_type |-> type, status |-> "running", progress |-> 0,
     total_items |-> NULL, processed_items |-> 0, error_message |-> NULL,
     completed_at |-> NULL]

(***************************************************************************)
(* int((processed_items / total_items) * 100) is computed in Python floats *)
(* (IEEE 754 binary64): the quotient is rounded to 53 significant bits,    *)
(* the product by 100 is rounded to 53 bits again, and int() truncates.    *)
(* A significand is kept as five limbs, the leading bit and four limbs of  *)
(* 13 bits, most significant first.                                        *)
(***************************************************************************)
mantissa_bits == 53   \* sys.float_info.mant_dig

RECURSIVE Pow2(_)
Pow2(e) == IF e = 0 THEN 1 ELSE 2 * Pow2(e - 1)

LimbCount == 4
LimbBits == (mantissa_bits - 1) \div LimbCount
Limb == Pow2(LimbBits)

Reverse(s) == [i \in 1..Len(s) |-> s[Len(s) + 1 - i]]

RECURSIVE BitLength(_)
BitLength(n) == IF n = 0 THEN 0 ELSE 1 + BitLength(n \div 2)

\* the least e with p * 2^e >= t, for 0 < p <= t
RECURSIVE Exponent(_, _)
Exponent(p, t) == IF p >= t THEN 0 ELSE 1 + Exponent(2 * p, t)

\* the next n limbs of the expansion of r / t, for 0 <= r < t, and the
\* remainder left after them
RECURSIVE LongDiv(_, _, _)
LongDiv(r, t, n) ==
    IF n = 0 THEN [limbs |-> <<>>, rem |-> r]
    ELSE LET next == LongDiv((r * Limb) % t, t, n - 1)
         IN [limbs |-> <<(r * Limb) \div t>> \o next.limbs, rem |-> next.rem]

\* limbs + 1
RECURSIVE Inc(_)
Inc(limbs) ==
    LET n == Len(limbs)
    IN IF n = 1 \/ limbs[n] < Limb - 1
       THEN [limbs EXCEPT ![n] = @ + 1]
       ELSE Inc(SubSeq(limbs, 1, n - 1)) \o <<0>>

\* limbs (least significant first) times k, plus carry
RECURSIVE TimesSmall(_, _, _)
TimesSmall(lsb, k, carry) ==
    IF Len(lsb) = 1 THEN <<k * lsb[1] + carry>>
    ELSE LET v == k * Head(lsb) + carry
         IN <<v % Limb>> \o TimesSmall(Tail(lsb), k, v \div Limb)

\* the float p / t for 0 < p <= t, rounded to nearest, ties to even: its
\* significand, to be scaled by 2^-(52 + exponent)
Quotient(p, t) ==
    LET e == Exponent(p, t)
        tail == LongDiv(p * Pow2(e) - t, t, LimbCount)
        exact == <<1>> \o tail.limbs
        up == \/ 2 * tail.rem > t
              \/ 2 * tail.rem = t /\ exact[LimbCount + 1] % 2 = 1
    IN [limbs |-> IF up THEN Inc(exact) ELSE exact, exponent |-> e]

\* int(q * 100) for the float q: the product is rounded to 53 bits, which
\* reaches the next integer when every bit of its fraction above the
\* dropped ones is set and the dropped ones are at least half
TimesHundredTruncated(q) ==
    LET product == TimesSmall(Reverse(q.limbs), 100, 0)
        high == product[LimbCount + 1]
        dropped == BitLength(high) - 1
        ones == /\ high % Pow2(q.exponent) = Pow2(q.exponent) - 1
                /\ \A i \in 2..LimbCount : product[i] = Limb - 1
                /\ product[1] >= Limb - Pow2(dropped - 1)
    IN high \div Pow2(q.exponent) + (IF ones THEN 1 ELSE 0)

\* a faulty progress that counts the units left instead of the units done
ProgressOfRemaining(processed, total) == (100 * (total - processed)) \div total

\* worker.py 105 / 222: int((job.processed_items / job.total_items) * 100)
Progress(processed, total) ==
    IF processed = 0 THEN 0
    ELSE TimesHundredTruncated(Quotient(processed, total))

Event(status, progress, total, processed) ==
    [status |-> status, progress |-> progress, total_items |-> total,
     processed_items |-> processed]

NoEvent == [status |-> "none", progress |-> 0, total_items |-> NULL,
            processed_items |-> 0]

NoHist ==
    [pubRaised |-> {},        \* call sites where publish raised
     cause |-> "none",        \* what sent the run into its except handler
     upstreamDown |-> 0,      \* monthly requests that failed
     outage |-> FALSE,        \* the last monthly request failed
     commitFailed |-> FALSE,  \* a unit commit failed and was rolled back
     ledgerFailed |-> FALSE,  \* a commit of the job row raised
     failedGames |-> {},      \* loop indices whose processing failed
     tried |-> <<>>,          \* loop indices handed to analyze_game
     opened |-> 0,            \* engine sessions opened (__enter__ calls)
     mine |-> 0,              \* Move rows this run persisted
     skipped |-> {},          \* games that had Move rows at the work-list query
     seen |-> 0,              \* size of the moves table at the blunders query
     rerun |-> FALSE,         \* a puzzle run had committed over the same moves
     wasCompleted |-> FALSE]  \* the run committed status = completed

(***************************************************************************)
(* ChessComService._get_monthly_games on a reachable upstream: the games   *)
(* of the month that _process_game_data keeps (those with a pgn).          *)
(***************************************************************************)
ProcessedGames(month) == SelectSeq(month, LAMBDA t : t # 0)

(***************************************************************************)
(* The loop of save_games (chesscom.py and pgn.py alike): a game is added  *)
(* to the session unless a committed row of the subject holds its text.    *)
(* SessionLocal has autoflush=False, so the query does not see the rows    *)
(* the same call has added.                                                *)
(***************************************************************************)
SaveGamesScan(list, committed) ==
    SelectSeq(list, LAMBDA t : t \notin Range(committed))


(***************************************************************************)
(* PuzzleService._create_puzzle_from_blunder: whether a blunder yields     *)
(* puzzle data.  For ply > 1 the start position is the fen of the row of   *)
(* the previous ply (_get_previous_move), where the recorded best move is  *)
(* legal; without that row there is no puzzle.  For ply 1 the board stays  *)
(* the position after the blunder, where the other side is to move and the *)
(* recorded best move is not legal.                                        *)
(***************************************************************************)
HasPreviousMove(m, committed) ==
    \E k \in DOMAIN committed :
        /\ committed[k].game = committed[m].game
        /\ committed[k].ply = committed[m].ply - 1

CreatesPuzzle(m, committed) ==
    /\ committed[m].ply > 1
    /\ HasPreviousMove(m, committed)

----------------------------------------------------------------------------
(***************************************************************************)
(* Inputs.                                                                 *)
(***************************************************************************)
MonthGames == 6       \* games of one monthly archive in the long import

\* the games parse_pgn_file returns for an uploaded file (never empty)
UploadFiles == {<<1, 1>>, <<2, 5>>}

\* upstream archives: one long enough for more than one batch, and a short
\* one whose months each hold a game without pgn and the same two games
LongArchive == [m \in 1..MaxMonths |-> Iota(MonthGames)]
ShortArchive == [m \in 1..MaxMonths |-> <<0, 2, 1>>]

\* a database holding the games of one month, the first of them analysed
AnalysedGames == <<2, 1>>
AnalysedMoves == MovesData(1, 2, NumPlies(2))

(***************************************************************************)
(* Components studied on their own: the broker and the websocket relay     *)
(* (routes/websocket.py), one monthly request of the upstream client       *)
(* (services/chesscom.py), and the evaluation of one ply with the puzzle   *)
(* made of it (services/stockfish.py, services/puzzles.py).  While the     *)
(* worker functions run these stay in their initial state.                 *)
(***************************************************************************)
Usernames == {"alice", "bob"}
Conns == {"c1", "c2"}

\* a websocket that is not yet accepted
NoSockets ==
    [c \in Conns |-> [state |-> "new", username |-> "", channel |-> <<>>,
                      since |-> 0, inbox |-> <<>>, sent |-> <<>>]]

\* no request of the upstream client is under way
NoCall == [state |-> "idle", total |-> retry_total, sent |-> 0,
           responses |-> <<>>, outcome |-> "none"]

\* no ply is under evaluation
NoUnit == [state |-> "none"]

\* no job row is counted on its own
NoTally == [state |-> "none"]

(***************************************************************************)
(* Three scenarios.  One worker runs jobs of every type on an empty        *)
(* database, against the short archive.  One worker runs imports against   *)
(* the long archive while the HTTP process serves uploads.  Two workers    *)
(* run analysis and puzzle jobs side by side on a database the first       *)
(* scenario produces: an import that reached one month only, then an       *)
(* analysis whose engine died on the second game.                          *)
(***************************************************************************)
InitWorkers ==
    /\ ledger = <<>>
    /\ pc = [a \in Actors |-> "idle"]
    /\ jid = [w \in Workers |-> 0]
    /\ fetched = [w \in Workers |-> <<>>]
    /\ work = [w \in Workers |-> <<>>]
    /\ idx = [w \in Workers |-> 0]
    /\ count = [w \in Workers |-> 0]
    /\ batch = [a \in Actors |-> <<>>]
    /\ pending = [a \in Actors |-> <<>>]
    /\ engine = [w \in Workers |-> "none"]
    /\ lastEvent = [w \in Workers |-> NoEvent]
    /\ result = [w \in Workers |-> "none"]
    /\ hist = [w \in Workers |-> NoHist]
    /\ puzzles = <<>>
    /\ started = 0
    /\ uploads = 0
    /\ faults = 0
    /\ genAt = {}

\* no job is enqueued and the tables are empty
InitNoJobs ==
    /\ InitWorkers
    /\ enabled = {}
    /\ types = {}
    /\ archive = <<>>
    /\ games = <<>>
    /\ moves = <<>>

Init ==
    /\ InitWorkers
    /\ \/ /\ enabled = {"w1"}
          /\ types = JobTypes
          /\ archive = ShortArchive
          /\ games = <<>>
          /\ moves = <<>>
       \/ /\ enabled = {"w1", Api}
          /\ types = {"import"}
          /\ archive = LongArchive
          /\ games = <<>>
          /\ moves = <<>>
       \/ /\ enabled = Workers
          /\ types = {"analyze", "puzzle"}
          /\ archive = ShortArchive
          /\ games = AnalysedGames
          /\ moves = AnalysedMoves
    /\ published = <<>>
    /\ sockets = NoSockets
    /\ http = NoCall
    /\ unit = NoUnit
    /\ tally = NoTally

----------------------------------------------------------------------------
(***************************************************************************)
(* Shared pieces of the three worker functions.                            *)
(***************************************************************************)
Job(w) == ledger[jid[w]]

\* db.commit() of the job's session after assignments to the job object
CommitJob(w, row) == ledger' = [ledger EXCEPT ![jid[w]] = row]

Fault == faults < MaxFaults /\ faults' = faults + 1
NoFault == faults' = faults

Note(w, field, value) == hist' = [hist EXCEPT ![w][field] = value]

\* db.commit() of the job's session raised: the database is unreachable.
\* The session rolls back and the row keeps its committed values.  An
\* outage is one fault event, however many commits of the run it fails.
LedgerRaises(w) ==
    /\ IF hist[w].ledgerFailed THEN NoFault ELSE Fault
    /\ hist' = [hist EXCEPT
           ![w].ledgerFailed = TRUE,
           ![w].cause = IF @ = "none" THEN "ledger" ELSE @]
    /\ UNCHANGED ledger

\* redis_conn.publish raised at `site`: publish_progress_update has no
\* handler, so the exception leaves the call site.  Outside the per-game
\* try of analyze_games it reaches the function's except clause.
PublishRaisesToHandler(w, site) ==
    /\ Fault
    /\ hist' = [hist EXCEPT ![w].pubRaised = @ \cup {site},
                            ![w].cause = "publish"]
    /\ pc' = [pc EXCEPT ![w] = "fail_commit"]
    /\ UNCHANGED lastEvent

\* worker.py 65-75 / 161-171 / 282-292: the job row is created as running
Create(w, type) ==
    /\ w \in enabled
    /\ type \in types
    /\ pc[w] \in {"idle", "done"}
    \* a job goes to the first free worker
    /\ w = "w2" => pc["w1"] \notin {"idle", "done"}
    /\ started < MaxRuns
    /\ started' = started + 1
    /\ ledger' = Append(ledger, NewJob(type))
    /\ jid' = [jid EXCEPT ![w] = Len(ledger) + 1]
    /\ pc' = [pc EXCEPT ![w] = IF type = "analyze" THEN "a_select" ELSE "start_pub"]
    /\ fetched' = [fetched EXCEPT ![w] = <<>>]
    /\ work' = [work EXCEPT ![w] = <<>>]
    /\ idx' = [idx EXCEPT ![w] = 0]
    /\ count' = [count EXCEPT ![w] = 0]
    /\ batch' = [batch EXCEPT ![w] = <<>>]
    /\ pending' = [pending EXCEPT ![w] = <<>>]
    /\ engine' = [engine EXCEPT ![w] = "none"]
    /\ lastEvent' = [lastEvent EXCEPT ![w] = NoEvent]
    /\ result' = [result EXCEPT ![w] = "none"]
    /\ hist' = [hist EXCEPT ![w] = NoHist]
    /\ UNCHANGED <<dbVars, envVars, genAt, uploads, faults>>

\* worker.py 78-86 / 196-204 / 295-303: the start event
PublishStart(w) ==
    /\ pc[w] = "start_pub"
    /\ \/ /\ NoFault
          /\ lastEvent' = [lastEvent EXCEPT ![w] =
                 Event("running", 0,
                       IF Job(w).job_type = "analyze" THEN Job(w).total_items ELSE NULL,
                       0)]
          /\ pc' = [pc EXCEPT ![w] =
                 CASE Job(w).job_type = "import" -> "i_fetch"
                   [] Job(w).job_type = "analyze" -> "a_enter"
                   [] OTHER -> "p_query"]
          /\ UNCHANGED hist
       \/ PublishRaisesToHandler(w, "start")
    /\ UNCHANGED <<dbVars, envVars, genAt, ledger, jid, fetched, work, idx, count, batch,
                   pending, engine, result, started, uploads>>

\* worker.py 119-122 / 240-243 / 309-313: the job is marked completed
Complete(w) ==
    /\ pc[w] = "complete"
    /\ \/ /\ CommitJob(w, [Job(w) EXCEPT
                 !.status = "completed",
                 !.progress = 100,
                 !.processed_items = IF Job(w).job_type = "puzzle" THEN count[w] ELSE @])
          /\ Note(w, "wasCompleted", TRUE)
          /\ pc' = [pc EXCEPT ![w] = "final_pub"]
          /\ NoFault
       \/ /\ LedgerRaises(w)
          /\ pc' = [pc EXCEPT ![w] = "fail_commit"]
    /\ UNCHANGED <<dbVars, envVars, genAt, jid, fetched, work, idx, count, batch, pending,
                   engine, lastEvent, result, started, uploads>>

\* worker.py 125-135 / 246-256 / 316-326: the final event, then return
PublishFinal(w) ==
    /\ pc[w] = "final_pub"
    /\ \/ /\ NoFault
          /\ lastEvent' = [lastEvent EXCEPT ![w] =
                 Event("completed", 100,
                       IF Job(w).job_type = "puzzle" THEN NULL ELSE Job(w).total_items,
                       IF Job(w).job_type = "puzzle" THEN count[w]
                       ELSE Job(w).processed_items)]
          /\ pc' = [pc EXCEPT ![w] = "done"]
          /\ result' = [result EXCEPT ![w] = "returned"]
          /\ UNCHANGED hist
       \/ /\ PublishRaisesToHandler(w, "final")
          /\ UNCHANGED result
    /\ UNCHANGED <<dbVars, envVars, genAt, ledger, jid, fetched, work, idx, count, batch,
                   pending, engine, started, uploads>>

\* str(e) of the exception the except clause caught, as a number
ErrorText(cause) == IF cause = "engine" THEN 2 ELSE 1

\* worker.py 137-141 / 258-262 / 328-332: except Exception: mark failed
\* The commit of the except clause is not guarded: when it raises, the
\* exception leaves the function (finally: db.close()) and nothing more is
\* written or published.
FailCommit(w) ==
    /\ pc[w] = "fail_commit"
    /\ \/ /\ CommitJob(w, [Job(w) EXCEPT !.status = "failed",
                                         !.error_message = ErrorText(hist[w].cause)])
          /\ pc' = [pc EXCEPT ![w] = "fail_pub"]
          /\ UNCHANGED <<result, hist, faults>>
       \/ /\ LedgerRaises(w)
          /\ pc' = [pc EXCEPT ![w] = "done"]
          /\ result' = [result EXCEPT ![w] = "raised"]
    /\ UNCHANGED <<dbVars, envVars, genAt, jid, fetched, work, idx, count, batch, pending,
                   engine, lastEvent, started, uploads>>

\* worker.py 144-154 / 265-275 / 335-345: the failure event, then raise e
PublishFailure(w) ==
    /\ pc[w] = "fail_pub"
    /\ \/ /\ NoFault
          /\ lastEvent' = [lastEvent EXCEPT ![w] = Event("failed", 0, NULL, 0)]
          /\ UNCHANGED hist
       \/ /\ Fault
          /\ hist' = [hist EXCEPT ![w].pubRaised = @ \cup {"failure"}]
          /\ UNCHANGED lastEvent
    /\ pc' = [pc EXCEPT ![w] = "done"]
    /\ result' = [result EXCEPT ![w] = "raised"]
    /\ UNCHANGED <<dbVars, envVars, genAt, ledger, jid, fetched, work, idx, count, batch,
                   pending, engine, started, uploads>>

----------------------------------------------------------------------------
(***************************************************************************)
(* import_chesscom_games (worker.py 62-156).                               *)
(***************************************************************************)
\* chesscom.py 48-57 and 61-82: one monthly request of get_user_games.  A
\* RequestException (after the adapter's retries) is caught and the month
\* contributes no games.  An upstream outage is one fault event, however
\* many consecutive requests it fails.
ImportFetch(w) ==
    /\ pc[w] = "i_fetch"
    /\ idx[w] < Len(archive)
    /\ \/ /\ NoFault
          /\ fetched' = [fetched EXCEPT ![w] = @ \o ProcessedGames(archive[idx[w] + 1])]
          /\ Note(w, "outage", FALSE)
       \/ /\ IF hist[w].outage THEN NoFault ELSE Fault
          /\ hist' = [hist EXCEPT ![w].upstreamDown = @ + 1, ![w].outage = TRUE]
          /\ UNCHANGED fetched
    /\ idx' = [idx EXCEPT ![w] = @ + 1]
    /\ UNCHANGED <<dbVars, envVars, genAt, ledger, pc, jid, work, count, batch, pending,
                   engine, lastEvent, result, started, uploads>>

\* worker.py 92-94: total_items = len(games), processed_items = 0
ImportSetTotal(w) ==
    /\ pc[w] = "i_fetch"
    /\ idx[w] = Len(archive)
    /\ \/ /\ CommitJob(w, [Job(w) EXCEPT !.total_items = Len(fetched[w]),
                                         !.processed_items = 0])
          /\ pc' = [pc EXCEPT ![w] = IF Len(fetched[w]) > 0 THEN "i_batch" ELSE "complete"]
          /\ UNCHANGED <<hist, faults>>
       \/ /\ LedgerRaises(w)
          /\ pc' = [pc EXCEPT ![w] = "fail_commit"]
    /\ idx' = [idx EXCEPT ![w] = 0]
    /\ UNCHANGED <<dbVars, envVars, genAt, jid, fetched, work, count, batch, pending,
                   engine, lastEvent, result, started, uploads>>

\* worker.py 100-102 with chesscom.py 173-203: the next batch and the loop
\* of save_games over it (idx counts the batches done)
ImportBatchScan(w) ==
    /\ pc[w] = "i_batch"
    /\ LET i == idx[w] * batch_size
           b == SubSeq(fetched[w], i + 1, Min(i + batch_size, Len(fetched[w])))
       IN /\ batch' = [batch EXCEPT ![w] = b]
          /\ pending' = [pending EXCEPT ![w] = SaveGamesScan(b, games)]
    /\ pc' = [pc EXCEPT ![w] = "i_commit"]
    /\ UNCHANGED <<dbVars, envVars, genAt, ledger, jid, fetched, work, idx, count, engine,
                   lastEvent, result, hist, started, uploads, faults>>

\* chesscom.py 205-213 / pgn.py 166-176: db.commit() of save_games; when it
\* raises the session is rolled back and the call returns 0
SaveGamesCommit(a) ==
    /\ pc[a] \in {"i_commit", "u_commit"}
    /\ \/ /\ NoFault
          /\ games' = games \o pending[a]
          /\ count' = IF a \in Workers
                      THEN [count EXCEPT ![a] = @ + Len(pending[a])] ELSE count
          /\ UNCHANGED hist
       \/ /\ Fault
          /\ hist' = IF a \in Workers
                     THEN [hist EXCEPT ![a].commitFailed = TRUE] ELSE hist
          /\ UNCHANGED <<games, count>>
    /\ pending' = [pending EXCEPT ![a] = <<>>]
    /\ pc' = [pc EXCEPT ![a] = IF a \in Workers THEN "i_update" ELSE "idle"]
    /\ UNCHANGED <<moves, puzzles, envVars, genAt, ledger, jid, fetched, work, idx, batch,
                   engine, lastEvent, result, started, uploads>>

\* worker.py 104-106: processed_items and progress after a batch
ImportUpdate(w) ==
    /\ pc[w] = "i_update"
    /\ \/ /\ LET done == idx[w] * batch_size + Len(batch[w])
             IN CommitJob(w, [Job(w) EXCEPT
                    !.processed_items = done,
                    !.progress = Progress(done, Job(w).total_items)])
          /\ pc' = [pc EXCEPT ![w] = "i_pub"]
          /\ UNCHANGED <<hist, faults>>
       \/ /\ LedgerRaises(w)
          /\ pc' = [pc EXCEPT ![w] = "fail_commit"]
    /\ UNCHANGED <<dbVars, envVars, genAt, jid, fetched, work, idx, count, batch, pending,
                   engine, lastEvent, result, started, uploads>>

\* worker.py 109-117: the progress event of a batch, outside any inner try
ImportBatchPub(w) ==
    /\ pc[w] = "i_pub"
    /\ \/ /\ NoFault
          /\ lastEvent' = [lastEvent EXCEPT ![w] =
                 Event("running", Job(w).progress, Job(w).total_items,
                       Job(w).processed_items)]
          /\ idx' = [idx EXCEPT ![w] = @ + 1]
          /\ pc' = [pc EXCEPT ![w] =
                 IF (idx[w] + 1) * batch_size < Len(fetched[w])
                 THEN "i_batch" ELSE "complete"]
          /\ UNCHANGED hist
       \/ /\ PublishRaisesToHandler(w, "unit")
          /\ UNCHANGED idx
    /\ UNCHANGED <<dbVars, envVars, genAt, ledger, jid, fetched, work, count, batch, pending,
                   engine, result, started, uploads>>

(***************************************************************************)
(* PGN upload (routes/pgn_upload.py 13-50, services/pgn.py 132-176).       *)
(***************************************************************************)
Upload(file) ==
    /\ Api \in enabled
    /\ pc[Api] = "idle"
    /\ uploads < MaxUploads
    /\ uploads' = uploads + 1
    /\ batch' = [batch EXCEPT ![Api] = file]
    /\ pending' = [pending EXCEPT ![Api] = SaveGamesScan(file, games)]
    /\ pc' = [pc EXCEPT ![Api] = "u_commit"]
    /\ UNCHANGED <<dbVars, envVars, genAt, ledger, jid, fetched, work, idx, count, engine,
                   lastEvent, result, hist, started, faults>>

----------------------------------------------------------------------------
(***************************************************************************)
(* analyze_games (worker.py 159-277).                                      *)
(***************************************************************************)
\* a faulty work list that holds every game of the subject
AllGames(gs, ms) == Iota(Len(gs))

\* worker.py 177-187: the games of the subject with no Move row
GamesWithoutMoves(gs, ms) ==
    SelectSeq(Iota(Len(gs)), LAMBDA g : \A k \in DOMAIN ms : ms[k].game # g)

\* worker.py 177-193: the work list and total_items
AnalyzeSelect(w) ==
    /\ pc[w] = "a_select"
    /\ work' = [work EXCEPT ![w] = GamesWithoutMoves(games, moves)]
    /\ LET seen == {g \in DOMAIN games : \E k \in DOMAIN moves : moves[k].game = g}
       IN \/ /\ CommitJob(w, [Job(w) EXCEPT !.total_items = Len(work'[w]),
                                             !.processed_items = 0])
             /\ Note(w, "skipped", seen)
             /\ pc' = [pc EXCEPT ![w] = "start_pub"]
             /\ NoFault
          \/ /\ IF hist[w].ledgerFailed THEN NoFault ELSE Fault
             /\ hist' = [hist EXCEPT ![w].skipped = seen,
                                     ![w].ledgerFailed = TRUE,
                                     ![w].cause = "ledger"]
             /\ pc' = [pc EXCEPT ![w] = "fail_commit"]
             /\ UNCHANGED ledger
    /\ UNCHANGED <<dbVars, envVars, genAt, jid, fetched, idx, count, batch, pending,
                   engine, lastEvent, result, started, uploads>>

\* a faulty entry that swallows the failure of popen_uci and goes on to the
\* loop without an engine
EngineEnterSwallowsFailure(w) ==
    /\ pc[w] = "a_enter"
    /\ \/ /\ NoFault
          /\ engine' = [engine EXCEPT ![w] = "open"]
          /\ Note(w, "opened", hist[w].opened + 1)
       \/ /\ Fault
          /\ hist' = [hist EXCEPT ![w].opened = @ + 1, ![w].cause = "engine"]
          /\ engine' = [engine EXCEPT ![w] = "dead"]
    /\ pc' = [pc EXCEPT ![w] = "a_game"]
    /\ idx' = [idx EXCEPT ![w] = 0]
    /\ UNCHANGED <<dbVars, envVars, genAt, ledger, jid, fetched, work, count, batch, pending,
                   lastEvent, result, started, uploads>>

\* worker.py 207 with stockfish.py 22-25: `with StockfishService(...)`;
\* popen_uci raising leaves the with statement for the except clause
EngineEnter(w) ==
    /\ pc[w] = "a_enter"
    /\ \/ /\ NoFault
          /\ engine' = [engine EXCEPT ![w] = "open"]
          /\ Note(w, "opened", hist[w].opened + 1)
          /\ pc' = [pc EXCEPT ![w] = "a_game"]
       \/ /\ Fault
          /\ hist' = [hist EXCEPT ![w].opened = @ + 1, ![w].cause = "engine"]
          /\ pc' = [pc EXCEPT ![w] = "fail_commit"]
          /\ UNCHANGED engine
    /\ idx' = [idx EXCEPT ![w] = 0]
    /\ UNCHANGED <<dbVars, envVars, genAt, ledger, jid, fetched, work, count, batch, pending,
                   lastEvent, result, started, uploads>>

\* a faulty per-game handler that lets the exception abort the job
GameRaisesAborts(w) ==
    /\ pc' = [pc EXCEPT ![w] = "fail_commit"]
    /\ UNCHANGED idx

\* worker.py 236-238: an exception inside the per-game try is printed and
\* the loop continues with the next game
GameRaises(w) ==
    /\ idx' = [idx EXCEPT ![w] = @ + 1]
    /\ pc' = [pc EXCEPT ![w] = "a_game"]

\* stockfish.py 32-95: the rows analyze_game returns for game g when the
\* engine answers for the first n plies only
AnalyzeGameData(g, n) == MovesData(g, games[g], n)

\* worker.py 210-218 with stockfish.py 32-95: analyze_game on the next game
\* of the work list.  An engine error at a ply is caught inside analyze_game,
\* which returns the rows made so far; any other exception reaches the
\* per-game except clause (worker.py 236-238), which continues the loop.
AnalyzeGame(w) ==
    /\ pc[w] = "a_game"
    /\ idx[w] < Len(work[w])
    /\ LET i == idx[w] + 1
           g == work[w][i]
           n == NumPlies(games[g])
           Returns(data, failed, eng) ==
               /\ pending' = [pending EXCEPT ![w] = data]
               /\ engine' = [engine EXCEPT ![w] = eng]
               /\ hist' = [hist EXCEPT
                      ![w].tried = Append(@, i),
                      ![w].failedGames = IF failed THEN @ \cup {i} ELSE @]
               /\ pc' = [pc EXCEPT ![w] = IF data # <<>> THEN "a_save" ELSE "a_update"]
               /\ UNCHANGED idx
       IN \/ /\ engine[w] = "open"
             /\ NoFault
             /\ Returns(AnalyzeGameData(g, n), FALSE, "open")
          \/ /\ engine[w] = "open"
             /\ Fault
             /\ \E k \in 0..(n - 1), eng \in {"open", "dead"} :
                    Returns(AnalyzeGameData(g, k), TRUE, eng)
          \/ /\ engine[w] = "dead"
             /\ NoFault
             /\ Returns(<<>>, n > 0, "dead")
          \/ /\ Fault
             /\ hist' = [hist EXCEPT ![w].tried = Append(@, i),
                                     ![w].failedGames = @ \cup {i}]
             /\ GameRaises(w)
             /\ UNCHANGED <<pending, engine>>
    /\ UNCHANGED <<dbVars, envVars, genAt, ledger, jid, fetched, work, count, batch,
                   lastEvent, result, started, uploads>>

\* worker.py 216-218 with stockfish.py 134-172: save_moves commits the rows
\* of the game in its own session, or rolls back and returns 0; the caller
\* counts the game either way
SaveMoves(w) ==
    /\ pc[w] = "a_save"
    /\ \/ /\ NoFault
          /\ moves' = moves \o pending[w]
          /\ Note(w, "mine", hist[w].mine + Len(pending[w]))
       \/ /\ Fault
          /\ Note(w, "commitFailed", TRUE)
          /\ UNCHANGED moves
    /\ pending' = [pending EXCEPT ![w] = <<>>]
    /\ count' = [count EXCEPT ![w] = @ + 1]
    /\ pc' = [pc EXCEPT ![w] = "a_update"]
    /\ UNCHANGED <<games, puzzles, envVars, genAt, ledger, jid, fetched, work, idx, batch,
                   engine, lastEvent, result, started, uploads>>

\* worker.py 221-223: processed_items and progress after a game; the commit
\* is inside the per-game try, so when it raises the loop goes on
AnalyzeUpdate(w) ==
    /\ pc[w] = "a_update"
    /\ \/ /\ CommitJob(w, [Job(w) EXCEPT
                 !.processed_items = idx[w] + 1,
                 !.progress = Progress(idx[w] + 1, Job(w).total_items)])
          /\ pc' = [pc EXCEPT ![w] = "a_pub"]
          /\ NoFault
          /\ UNCHANGED <<hist, idx>>
       \/ /\ IF hist[w].ledgerFailed THEN NoFault ELSE Fault
          /\ hist' = [hist EXCEPT ![w].ledgerFailed = TRUE]
          /\ GameRaises(w)
          /\ UNCHANGED ledger
    /\ UNCHANGED <<dbVars, envVars, genAt, jid, fetched, work, count, batch, pending,
                   engine, lastEvent, result, started, uploads>>

\* worker.py 226-238: the progress event of a game, inside the per-game try:
\* when publish raises the except clause prints and continues
AnalyzeGamePub(w) ==
    /\ pc[w] = "a_pub"
    /\ \/ /\ NoFault
          /\ lastEvent' = [lastEvent EXCEPT ![w] =
                 Event("running", Job(w).progress, Job(w).total_items,
                       Job(w).processed_items)]
          /\ UNCHANGED hist
          /\ idx' = [idx EXCEPT ![w] = @ + 1]
          /\ pc' = [pc EXCEPT ![w] = "a_game"]
       \/ /\ Fault
          /\ hist' = [hist EXCEPT ![w].pubRaised = @ \cup {"unit"}]
          /\ GameRaises(w)
          /\ UNCHANGED lastEvent
    /\ UNCHANGED <<dbVars, envVars, genAt, ledger, jid, fetched, work, count, batch, pending,
                   engine, result, started, uploads>>

\* a faulty exit that leaves the engine process as it is
EngineExitLeavesOpen(w) ==
    /\ pc[w] = "a_game"
    /\ idx[w] = Len(work[w])
    /\ pc' = [pc EXCEPT ![w] = "complete"]
    /\ UNCHANGED <<dbVars, envVars, genAt, ledger, jid, fetched, work, idx, count, batch,
                   pending, engine, lastEvent, result, hist, started, uploads, faults>>

\* worker.py 207-239 with stockfish.py 27-30: the loop is over and the with
\* statement quits the engine
EngineExit(w) ==
    /\ pc[w] = "a_game"
    /\ idx[w] = Len(work[w])
    /\ engine' = [engine EXCEPT ![w] = "closed"]
    /\ pc' = [pc EXCEPT ![w] = "complete"]
    /\ UNCHANGED <<dbVars, envVars, genAt, ledger, jid, fetched, work, idx, count, batch,
                   pending, lastEvent, result, hist, started, uploads, faults>>

----------------------------------------------------------------------------
(***************************************************************************)
(* generate_puzzles (worker.py 280-347) and                                *)
(* PuzzleService.generate_puzzles_from_blunders (puzzles.py 16-60).        *)
(***************************************************************************)
\* puzzles.py 23-26: the blunders of the subject
Blunders(ms) == SelectSeq(Iota(Len(ms)), LAMBDA m : ms[m].tag = "blunder")

\* a faulty lookup that never finds the puzzle of a blunder
ExistingPuzzleNever(m, ps) == FALSE

\* puzzles.py 30-35: a committed puzzle with this source move
ExistingPuzzle(m, ps) == \E k \in DOMAIN ps : ps[k].source_move_id = m

PuzzleQuery(w) ==
    /\ pc[w] = "p_query"
    /\ work' = [work EXCEPT ![w] = Blunders(moves)]
    /\ idx' = [idx EXCEPT ![w] = 0]
    /\ pending' = [pending EXCEPT ![w] = <<>>]
    /\ hist' = [hist EXCEPT ![w].seen = Len(moves),
                            ![w].rerun = Len(moves) \in genAt]
    /\ pc' = [pc EXCEPT ![w] = "p_loop"]
    /\ UNCHANGED <<dbVars, envVars, genAt, ledger, jid, fetched, count, batch, engine,
                   lastEvent, result, started, uploads, faults>>

\* puzzles.py 28-50: one blunder of the loop: skip it when a puzzle exists,
\* else build the puzzle and add it to the session
PuzzleStep(w) ==
    /\ pc[w] = "p_loop"
    /\ idx[w] < Len(work[w])
    /\ LET m == work[w][idx[w] + 1]
       IN IF ~ExistingPuzzle(m, puzzles) /\ CreatesPuzzle(m, moves)
          THEN /\ pending' = [pending EXCEPT ![w] = Append(@, [source_move_id |-> m])]
               /\ count' = [count EXCEPT ![w] = @ + 1]
          ELSE UNCHANGED <<pending, count>>
    /\ idx' = [idx EXCEPT ![w] = @ + 1]
    /\ UNCHANGED <<dbVars, envVars, genAt, ledger, pc, jid, fetched, work, batch, engine,
                   lastEvent, result, hist, started, uploads, faults>>

\* puzzles.py 52-60: db.commit() of the puzzles added, or rollback and 0
PuzzleCommit(w) ==
    /\ pc[w] = "p_loop"
    /\ idx[w] = Len(work[w])
    /\ \/ /\ NoFault
          /\ puzzles' = puzzles \o pending[w]
          /\ genAt' = genAt \cup {hist[w].seen}
          /\ UNCHANGED <<count, hist>>
       \/ /\ Fault
          /\ count' = [count EXCEPT ![w] = 0]
          /\ Note(w, "commitFailed", TRUE)
          /\ UNCHANGED <<puzzles, genAt>>
    /\ pending' = [pending EXCEPT ![w] = <<>>]
    /\ pc' = [pc EXCEPT ![w] = "complete"]
    /\ UNCHANGED <<games, moves, envVars, ledger, jid, fetched, work, idx, batch,
                   engine, lastEvent, result, started, uploads>>

----------------------------------------------------------------------------
Next ==
    \/ \E w \in Workers, type \in JobTypes : Create(w, type)
    \/ \E w \in Workers : PublishStart(w)
    \/ \E w \in Workers : ImportFetch(w)
    \/ \E w \in Workers : ImportSetTotal(w)
    \/ \E w \in Workers : ImportBatchScan(w)
    \/ \E a \in Actors : SaveGamesCommit(a)
    \/ \E w \in Workers : ImportUpdate(w)
    \/ \E w \in Workers : ImportBatchPub(w)
    \/ \E file \in UploadFiles : Upload(file)
    \/ \E w \in Workers : AnalyzeSelect(w)
    \/ \E w \in Workers : EngineEnter(w)
    \/ \E w \in Workers : AnalyzeGame(w)
    \/ \E w \in Workers : SaveMoves(w)
    \/ \E w \in Workers : AnalyzeUpdate(w)
    \/ \E w \in Workers : AnalyzeGamePub(w)
    \/ \E w \in Workers : EngineExit(w)
    \/ \E w \in Workers : PuzzleQuery(w)
    \/ \E w \in Workers : PuzzleStep(w)
    \/ \E w \in Workers : PuzzleCommit(w)
    \/ \E w \in Workers : Complete(w)
    \/ \E w \in Workers : PublishFinal(w)
    \/ \E w \in Workers : FailCommit(w)
    \/ \E w \in Workers : PublishFailure(w)

Spec == Init /\ [][Next]_vars

(***************************************************************************)
(* Liveness: a worker that has taken a job keeps executing it, every call  *)
(* of the function returning with a result or with an error.               *)
(***************************************************************************)
JobStep(w) ==
    \/ PublishStart(w)
    \/ ImportFetch(w)
    \/ ImportSetTotal(w)
    \/ ImportBatchScan(w)
    \/ SaveGamesCommit(w)
    \/ ImportUpdate(w)
    \/ ImportBatchPub(w)
    \/ AnalyzeSelect(w)
    \/ EngineEnter(w)
    \/ AnalyzeGame(w)
    \/ SaveMoves(w)
    \/ AnalyzeUpdate(w)
    \/ AnalyzeGamePub(w)
    \/ EngineExit(w)
    \/ PuzzleQuery(w)
    \/ PuzzleStep(w)
    \/ PuzzleCommit(w)
    \/ Complete(w)
    \/ PublishFinal(w)
    \/ FailCommit(w)
    \/ PublishFailure(w)

LiveSpec == Spec /\ \A w \in Workers : WF_vars(JobStep(w))

----------------------------------------------------------------------------
(***************************************************************************)
(* The broker and the websocket relay (worker.py 19-22, websocket.py).     *)
(* Redis pub/sub hands a published message to the connections subscribed   *)
(* to the channel at that moment and keeps nothing.                        *)
(***************************************************************************)
\* a faulty channel name that leaves the username out
ChannelShared(username) == <<"analysis_progress">>

\* worker.py 21 / websocket.py 49: f"analysis_progress:{username}"
Channel(username) == <<"analysis_progress", username>>

\* websocket.py 47-51: accept, then subscribe to the channel of the username
Subscribe(c, username) ==
    /\ sockets[c].state = "new"
    /\ sockets' = [sockets EXCEPT ![c].state = "open",
                                  ![c].username = username,
                                  ![c].channel = Channel(username),
                                  ![c].since = Len(published)]
    /\ UNCHANGED <<pipeVars, tally, published, http, unit>>

\* worker.py 19-22: publish_progress_update; the broker appends the message
\* to the buffer of every connection subscribed to the channel
Publish(username) ==
    /\ Len(published) < MaxEvents
    /\ LET ch == Channel(username)
           id == Len(published) + 1
           rcv == {c \in Conns : sockets[c].state = "open" /\ sockets[c].channel = ch}
       IN /\ published' = Append(published,
                 [username |-> username, channel |-> ch, receivers |-> rcv])
          /\ sockets' = [c \in Conns |->
                 IF c \in rcv THEN [sockets[c] EXCEPT !.inbox = Append(@, id)]
                 ELSE sockets[c]]
    /\ UNCHANGED <<pipeVars, tally, http, unit>>

\* websocket.py 18-31: _relay_pubsub_messages takes the next message of the
\* subscription and sends it to the websocket
Relay(c) ==
    /\ sockets[c].state = "open"
    /\ sockets[c].inbox # <<>>
    /\ sockets' = [sockets EXCEPT ![c].sent = Append(@, Head(sockets[c].inbox)),
                                  ![c].inbox = Tail(@)]
    /\ UNCHANGED <<pipeVars, tally, published, http, unit>>

\* websocket.py 56-64: the client is gone: the relay is cancelled and the
\* subscription closed, with whatever it still held
Disconnect(c) ==
    /\ sockets[c].state = "open"
    /\ sockets' = [sockets EXCEPT ![c].state = "closed", ![c].inbox = <<>>]
    /\ UNCHANGED <<pipeVars, tally, published, http, unit>>

InitBus ==
    /\ InitNoJobs
    /\ published = <<>>
    /\ sockets = NoSockets
    /\ http = NoCall
    /\ unit = NoUnit
    /\ tally = NoTally

NextBus ==
    \/ \E c \in Conns, username \in Usernames : Subscribe(c, username)
    \/ \E username \in Usernames : Publish(username)
    \/ \E c \in Conns : Relay(c)
    \/ \E c \in Conns : Disconnect(c)

SpecBus == InitBus /\ [][NextBus]_vars


----------------------------------------------------------------------------
(***************************************************************************)
(* One call of ChessComService._get_monthly_games (chesscom.py 61-82)      *)
(* through the session of chesscom.py 23-35, whose adapter retries with    *)
(* Retry(total=3, status_forcelist=[429, 500, 502, 503, 504]).  Retry      *)
(* counts the retries left: each failed request decrements total, and the  *)
(* adapter gives up when total would go below zero.                        *)
(***************************************************************************)
status_forcelist == {429, 500, 502, 503, 504}

\* a request that got no response (connection refused, reset or timed out)
NoResponse == 0

\* what one request can meet
Responses == {NoResponse, 200, 404, 429, 500, 501, 503}

\* urllib3 retries a GET after a connection or read error and after a
\* response whose status is in status_forcelist
Retryable(r) == r = NoResponse \/ r \in status_forcelist

\* chesscom.py 63-66: session.get(url) with a fresh Retry object
MonthlyStart ==
    /\ http.state = "idle"
    /\ http' = [NoCall EXCEPT !.state = "sending"]
    /\ UNCHANGED <<pipeVars, tally, published, sockets, unit>>

\* chesscom.py 66-82: one HTTP request of the call and what follows it: a
\* retry, the games of a 200 response, or [] after an HTTPError
\* (raise_for_status) or after the adapter gave up (a RequestException)
MonthlyRequest(r) ==
    /\ http.state = "sending"
    /\ LET call == [http EXCEPT !.sent = @ + 1, !.responses = Append(@, r)]
       IN http' =
             IF Retryable(r)
             THEN IF http.total - 1 < 0
                  THEN [call EXCEPT !.state = "done", !.outcome = "empty"]
                  ELSE [call EXCEPT !.total = @ - 1]
             ELSE [call EXCEPT !.state = "done",
                               !.outcome = IF r = 200 THEN "games" ELSE "empty"]
    /\ UNCHANGED <<pipeVars, tally, published, sockets, unit>>

InitFetch ==
    /\ InitNoJobs
    /\ published = <<>>
    /\ sockets = NoSockets
    /\ http = NoCall
    /\ unit = NoUnit
    /\ tally = NoTally

NextFetch ==
    \/ MonthlyStart
    \/ \E r \in Responses : MonthlyRequest(r)

SpecFetch == InitFetch /\ [][NextFetch]_vars

----------------------------------------------------------------------------
(***************************************************************************)
(* One ply of StockfishService.analyze_game (stockfish.py 47-89) and the   *)
(* puzzle PuzzleService makes of it (puzzles.py 62-110, 149-184, 238-253). *)
(* A colour is a boolean, as in python-chess (chess.WHITE is True).        *)
(***************************************************************************)
\* chess.engine.Cp, chess.engine.Mate and chess.engine.MateGiven.  Mate(0)
\* is the score of the side that is checkmated, MateGiven its negation.
Cp(v) == [kind |-> "cp", n |-> v]
Mate(m) == [kind |-> "mate", n |-> m]
MateGiven == [kind |-> "given", n |-> 0]

\* Score.__neg__
Neg(s) ==
    CASE s.kind = "cp" -> Cp(-s.n)
      [] s.kind = "mate" /\ s.n # 0 -> Mate(-s.n)
      [] s.kind = "mate" /\ s.n = 0 -> MateGiven
      [] OTHER -> Mate(0)

\* PovScore.pov(color) of a score relative to the side `turn`
Pov(score, color) ==
    IF score.turn = color THEN score.relative ELSE Neg(score.relative)

Abs(x) == IF x < 0 THEN -x ELSE x

\* stockfish.py 97-106; Score.mate() is None for Cp, the number of moves for
\* Mate and 0 for MateGiven
convert_eval(score, perspective_white) ==
    LET score_pov == Pov(score, perspective_white)
        mate_score == score_pov.n
    IN IF score_pov.kind # "cp"
       THEN IF mate_score > 0 THEN 10000 - mate_score * 100
                              ELSE -10000 - mate_score * 100
       ELSE score_pov.n

\* a faulty classification whose boundaries fall in the milder bucket
classify_mistake_strict(eval_swing) ==
    LET abs_swing == Abs(eval_swing)
    IN IF abs_swing > 200 THEN "blunder"
       ELSE IF abs_swing > 150 THEN "mistake"
       ELSE IF abs_swing > 90 THEN "inaccuracy"
       ELSE "none"

\* stockfish.py 108-118
classify_mistake(eval_swing) ==
    LET abs_swing == Abs(eval_swing)
    IN IF abs_swing >= 200 THEN "blunder"
       ELSE IF abs_swing >= 150 THEN "mistake"
       ELSE IF abs_swing >= 90 THEN "inaccuracy"
       ELSE "none"

\* puzzles.py 238-253
calculate_strength(sf_eval_cp) ==
    LET eval_swing == Abs(sf_eval_cp)
    IN IF eval_swing >= 500 THEN 5
       ELSE IF eval_swing >= 300 THEN 4
       ELSE IF eval_swing >= 200 THEN 3
       ELSE IF eval_swing >= 100 THEN 2
       ELSE 1

\* puzzles.py 207-215 and 233-236: placeholders that return False
is_pin == FALSE
is_skewer == FALSE
is_discovered_attack == FALSE

\* a faulty predicate that does not ask for a check
is_back_rank_mate_without_check(gives_check, king_square) ==
    /\ king_square # 0
    /\ (king_square \div 8) \in {0, 7}

\* puzzles.py 217-231: the move gives check and the king of the side that
\* moved (temp_board.king(not temp_board.turn)) stands on rank 1 or 8;
\* square 0 (a1) fails the test `if king_square`
is_back_rank_mate(gives_check, king_square) ==
    /\ gives_check
    /\ king_square # 0
    /\ (king_square \div 8) \in {0, 7}

\* a faulty chain that looks at the capture before the check
identify_motif_capture_first(gives_check, is_capture, is_fork, king_square) ==
    IF is_capture THEN "capture"
    ELSE IF gives_check THEN "check"
    ELSE IF is_fork THEN "fork"
    ELSE "tactics"

\* puzzles.py 149-184
identify_motif(gives_check, is_capture, is_fork, king_square) ==
    IF gives_check THEN "check"
    ELSE IF is_capture THEN "capture"
    ELSE IF is_fork THEN "fork"
    ELSE IF is_pin THEN "pin"
    ELSE IF is_skewer THEN "skewer"
    ELSE IF is_back_rank_mate(gives_check, king_square) THEN "back-rank"
    ELSE IF is_discovered_attack THEN "discovered-attack"
    ELSE "tactics"

\* engine scores, relative to the side to move of the position analysed
CpValues == {-500, -200, -199, -150, -149, -90, -89, -50, 0,
             89, 90, 149, 150, 160, 199, 200, 500}

ScoresBefore == {Cp(0), Cp(50), Cp(300), Mate(1)}

ScoresAfter ==
    {Cp(v) : v \in CpValues} \cup {Mate(m) : m \in (-MaxMate)..MaxMate}

\* squares of the king of the side that moved: a1, e1, e4, e8
KingSquares == {0, 4, 28, 60}

\* stockfish.py 47-87: the body of the loop for one ply
AnalysePly ==
    /\ unit.state = "scored"
    /\ LET side_to_move == unit.side
           score_before == [relative |-> unit.before, turn |-> side_to_move]
           eval_before == convert_eval(score_before, side_to_move)
           \* board.push(move): the other side is to move
           score_after == [relative |-> unit.after, turn |-> ~side_to_move]
           eval_after_mover == convert_eval(score_after, side_to_move)
           eval_after_board == convert_eval(score_after, ~side_to_move)
           eval_swing == eval_after_mover - eval_before
       IN unit' = [unit EXCEPT
              !.state = "analysed",
              !.eval_before = eval_before,
              !.eval_after_mover = eval_after_mover,
              !.eval_after_board = eval_after_board,
              !.eval_swing = eval_swing,
              !.mistake_tag = classify_mistake(eval_swing),
              !.sf_eval_cp = eval_after_board]
    /\ UNCHANGED <<pipeVars, tally, published, sockets, http>>

\* a faulty start position: the position before the blunder at every ply
StartBoardBefore(u) == "before"

\* puzzles.py 66-77: the board the puzzle starts from.  blunder.fen is the
\* position after the blunder (stockfish.py 65, 79); for ply > 1 the board
\* is replaced by the fen of the previous ply's row, the position before
\* the blunder; for ply 1 it stays the position after it.
StartBoard(u) == IF u.ply > 1 THEN "before" ELSE "after"

\* the side to move of a board: the mover before the blunder, the other
\* side after it
Turn(u, board) == IF board = "before" THEN u.side ELSE ~u.side

\* what stands on the from-square of the recorded best move: the mover's
\* piece before the blunder; after it the same piece, or nothing when the
\* blunder moved that very piece
PieceOnFromSquare(u, board) ==
    IF board = "before" \/ ~u.moved THEN IF u.side THEN "white" ELSE "black"
    ELSE "empty"

\* puzzles.py 86: best_move in board.legal_moves.  The best move is the
\* head of the engine's PV in the position before the blunder, where it is
\* legal; on any board a legal move moves a piece of the side to move.
BestMoveLegal(u, board) ==
    /\ PieceOnFromSquare(u, board) = (IF Turn(u, board) THEN "white" ELSE "black")
    /\ board = "before"

\* puzzles.py 70-87: whether _create_puzzle_from_blunder gets past its
\* early returns: a previous row for ply > 1, a recorded best move, and
\* that move legal on the start board
YieldsPuzzle(u) ==
    /\ u.ply > 1 => u.prev
    /\ u.best
    /\ BestMoveLegal(u, StartBoard(u))

\* puzzles.py 23-50 and 62-110: a move tagged blunder is handed to
\* _create_puzzle_from_blunder, which returns the puzzle data or None
MakePuzzle ==
    /\ unit.state = "analysed"
    /\ unit.mistake_tag = "blunder"
    /\ unit' = IF YieldsPuzzle(unit)
               THEN [unit EXCEPT
                        !.state = "puzzled",
                        !.motif = identify_motif(unit.check, unit.capture,
                                                 unit.fork, unit.king),
                        !.strength = calculate_strength(unit.sf_eval_cp)]
               ELSE [unit EXCEPT !.state = "no puzzle"]
    /\ UNCHANGED <<pipeVars, tally, published, sockets, http>>

InitUnit ==
    /\ InitNoJobs
    /\ published = <<>>
    /\ sockets = NoSockets
    /\ http = NoCall
    /\ tally = NoTally
    /\ \E side \in BOOLEAN, before \in ScoresBefore, after \in ScoresAfter,
          check \in BOOLEAN, capture \in BOOLEAN, fork \in BOOLEAN,
          king \in KingSquares, ply \in 1..2, prev \in BOOLEAN,
          best \in BOOLEAN, moved \in BOOLEAN :
          unit = [state |-> "scored", side |-> side, before |-> before,
                  ply |-> ply, prev |-> prev, best |-> best, moved |-> moved,
                  after |-> after, check |-> check, capture |-> capture,
                  fork |-> fork, king |-> king,
                  eval_before |-> 0, eval_after_mover |-> 0,
                  eval_after_board |-> 0, eval_swing |-> 0,
                  mistake_tag |-> "none", sf_eval_cp |-> 0,
                  motif |-> "", strength |-> 0]

NextUnit ==
    \/ AnalysePly
    \/ MakePuzzle

SpecUnit == InitUnit /\ [][NextUnit]_vars

----------------------------------------------------------------------------
(***************************************************************************)
(* The counters of one job row, from the commit of total_items to the last *)
(* update of the loop (worker.py 92-106 and 191-223).                      *)
(***************************************************************************)
\* worker.py 100-106: a batch of an import is saved; processed_items and
\* progress are assigned and committed together
BatchCounted ==
    /\ tally.state = "counting"
    /\ tally.job_type = "import"
    /\ tally.i < tally.total_items
    /\ LET done == Min(tally.i + batch_size, tally.total_items)
       IN tally' = [tally EXCEPT !.i = done,
                                 !.processed_items = done,
                                 !.progress = Progress(done, tally.total_items)]
    /\ UNCHANGED <<pipeVars, published, sockets, http, unit>>

\* worker.py 210-223: a game of an analyze job is analysed; processed_items
\* and progress are assigned and committed together
GameCounted ==
    /\ tally.state = "counting"
    /\ tally.job_type = "analyze"
    /\ tally.i < tally.total_items
    /\ LET done == tally.i + 1
       IN tally' = [tally EXCEPT !.i = done,
                                 !.processed_items = done,
                                 !.progress = Progress(done, tally.total_items)]
    /\ UNCHANGED <<pipeVars, published, sockets, http, unit>>

\* worker.py 236-238: the analysis of a game raised before the update; the
\* loop goes on with the next game
GameNotCounted ==
    /\ tally.state = "counting"
    /\ tally.job_type = "analyze"
    /\ tally.i < tally.total_items
    /\ tally' = [tally EXCEPT !.i = @ + 1]
    /\ UNCHANGED <<pipeVars, published, sockets, http, unit>>

\* worker.py 92-94 / 191-193: total_items = len(...), processed_items = 0
InitTally ==
    /\ InitNoJobs
    /\ published = <<>>
    /\ sockets = NoSockets
    /\ http = NoCall
    /\ unit = NoUnit
    /\ \E type \in {"import", "analyze"}, total \in 1..MaxTotal :
          tally = [state |-> "counting", job_type |-> type,
                   total_items |-> total, i |-> 0,
                   processed_items |-> 0, progress |-> 0]

NextTally ==
    \/ BatchCounted
    \/ GameCounted
    \/ GameNotCounted

SpecTally == InitTally /\ [][NextTally]_vars

----------------------------------------------------------------------------
(***************************************************************************)
(* Properties.                                                             *)
(***************************************************************************)
Running(w) == jid[w] > 0

Finished(w) == Running(w) /\ pc[w] = "done"

\* C1: once the committed status of a job is completed or failed, no later
\* commit of the run changes it.
C1_TerminalStatusNeverChanges ==
    [][\A j \in DOMAIN ledger :
          ledger[j].status \in Terminal => ledger'[j].status = ledger[j].status]_vars

\* C2: a run in which publish_progress_update raised (and the engine did not
\* fail to start) ends as the run in which the publish succeeded does:
\* status completed, the function returning its result.
C2_PublishErrorsSwallowed ==
    \A w \in Workers :
        (Finished(w) /\ hist[w].pubRaised # {} /\ hist[w].cause # "engine")
            => (Job(w).status = "completed" /\ result[w] = "returned")

\* C3: there is at most one Puzzle row per source_move_id.
C3_OnePuzzlePerSourceMove ==
    \A a, b \in DOMAIN puzzles :
        puzzles[a].source_move_id = puzzles[b].source_move_id => a = b

\* C4: from one commit of a job row to the next the progress does not
\* decrease, and the commit that sets status = completed sets progress 100.
C4_ProgressMonotoneAnd100 ==
    [][\A j \in DOMAIN ledger :
          /\ ledger'[j].progress >= ledger[j].progress
          /\ (ledger[j].status # "completed" /\ ledger'[j].status = "completed")
                => ledger'[j].progress = 100]_vars

\* a job over several units, one of which failed, was committed completed
\* after passing through an intermediate progress
C4_Witness ==
    \E w \in Workers :
        /\ Running(w)
        /\ Job(w).status = "completed"
        /\ Job(w).progress = 100
        /\ Job(w).total_items > 1
        /\ Job(w).processed_items < Job(w).total_items
        /\ hist[w].failedGames # {}

\* C5: an analyze job whose work list is empty commits total_items = 0, ends
\* completed and executes StockfishService.__enter__ not even once.
C5_NoEngineForEmptyWorkList ==
    \A w \in Workers :
        (Finished(w) /\ Job(w).job_type = "analyze" /\ work[w] = <<>>)
            => /\ Job(w).total_items = 0
               /\ Job(w).status = "completed"
               /\ hist[w].opened = 0

\* C6: an import job all of whose monthly requests failed ends with status
\* failed and error_message set.
C6_UpstreamDownFailsImport ==
    \A w \in Workers :
        (Finished(w) /\ Job(w).job_type = "import"
                     /\ hist[w].upstreamDown = Len(archive))
            => (Job(w).status = "failed" /\ Job(w).error_message # NULL)

\* C7: when the engine cannot be started the analyze job evaluates no game
\* and persists no Move row; once its except clause has committed, the job
\* is failed with error_message set; and when the function has ended the
\* failure event has been published (unless the broker refused that very
\* publish).  The status is that of a run whose commits of the job row
\* went through (a commit that raises is the case of C22).
C7_EngineStartFailureIsFatal ==
    \A w \in Workers :
        (Running(w) /\ hist[w].cause = "engine")
            => /\ hist[w].tried = <<>>
               /\ hist[w].mine = 0
               /\ engine[w] # "open"
               /\ pc[w] \in {"fail_commit", "fail_pub", "done"}
               /\ (pc[w] \in {"fail_pub", "done"} /\ ~hist[w].ledgerFailed)
                     => (Job(w).status = "failed" /\ Job(w).error_message # NULL)
               /\ (pc[w] = "done" /\ ~hist[w].ledgerFailed)
                     => /\ result[w] = "raised"
                        /\ \/ lastEvent[w] = Event("failed", 0, NULL, 0)
                           \/ "failure" \in hist[w].pubRaised

\* an analyze job with games to analyse ended failed on an engine that did
\* not start, its failure event published
C7_Witness ==
    \E w \in Workers :
        /\ Finished(w)
        /\ hist[w].cause = "engine"
        /\ Len(work[w]) > 0
        /\ Job(w).status = "failed"
        /\ lastEvent[w].status = "failed"

\* C8: a run in which the commit of a unit's rows failed ends with status
\* failed, never completed.
C8_CommitErrorFailsJob ==
    \A w \in Workers :
        (Finished(w) /\ hist[w].commitFailed) => Job(w).status = "failed"

C10_OneGameRowPerText ==
    \A a, b \in DOMAIN games : games[a] = games[b] => a = b

\* C11: a puzzle run that starts after a puzzle run committed over the same
\* Move rows, and during which no Move row is added, adds no Puzzle row to
\* its session and counts none; and no step changes or removes an existing
\* Puzzle row.
C11_SecondRunCreatesNothing ==
    /\ [](\A w \in Workers :
            (Running(w) /\ Job(w).job_type = "puzzle" /\ hist[w].rerun
                        /\ Len(moves) = hist[w].seen)
                => (pending[w] = <<>> /\ count[w] = 0))
    /\ [][\A k \in DOMAIN puzzles :
             k \in DOMAIN puzzles' /\ puzzles'[k] = puzzles[k]]_vars

\* a second puzzle run ended over unchanged Move rows, its blunders owning
\* the puzzles of the first run
C11_Witness ==
    \E w \in Workers :
        /\ Finished(w)
        /\ Job(w).job_type = "puzzle"
        /\ Job(w).status = "completed"
        /\ hist[w].rerun
        /\ Len(moves) = hist[w].seen
        /\ \E i \in DOMAIN work[w] : ExistingPuzzle(work[w][i], puzzles)

\* C12: an analyze job has in its work list no game that had a Move row when
\* the list was computed; it hands no such game to analyze_game and saves no
\* Move row of such a game.
C12_AnalysedGamesSkipped ==
    \A w \in Workers :
        (Running(w) /\ Job(w).job_type = "analyze")
            => /\ \A i \in DOMAIN work[w] : work[w][i] \notin hist[w].skipped
               /\ \A i \in DOMAIN hist[w].tried :
                      work[w][hist[w].tried[i]] \notin hist[w].skipped
               /\ pc[w] = "a_save"
                     => \A k \in DOMAIN pending[w] :
                            pending[w][k].game \notin hist[w].skipped

\* an analyze job evaluated and saved a game while another game of the
\* subject, analysed before, stayed out of its work list
C12_Witness ==
    \E w \in Workers :
        /\ Finished(w)
        /\ Job(w).job_type = "analyze"
        /\ hist[w].skipped # {}
        /\ hist[w].tried # <<>>
        /\ hist[w].mine > 0

\* C13: a job row whose status is completed or failed has completed_at set,
\* and a running job has completed_at null.
C13_CompletedAtSet ==
    \A j \in DOMAIN ledger :
        /\ ledger[j].status \in Terminal => ledger[j].completed_at # NULL
        /\ ledger[j].status = "running" => ledger[j].completed_at = NULL

C15_SubscriberDelivery ==
    /\ \A c \in Conns :
          LET k == sockets[c]
          IN /\ \A i \in DOMAIN k.sent :
                    /\ k.sent[i] \in DOMAIN published
                    /\ published[k.sent[i]].username = k.username
                    /\ k.sent[i] > k.since
                    /\ c \in published[k.sent[i]].receivers
             /\ \A i, j \in DOMAIN k.sent : i < j => k.sent[i] < k.sent[j]
    /\ \A e \in DOMAIN published :
          published[e].receivers = {}
              => \A c \in Conns : e \notin Range(sockets[c].sent) \cup Range(sockets[c].inbox)

\* a websocket was sent an event of its username, after having missed an
\* earlier one published before it subscribed, while an event of another
\* username was published during its subscription
C15_Witness ==
    \E c \in Conns :
        /\ sockets[c].sent # <<>>
        /\ \E e \in DOMAIN published :
               e <= sockets[c].since /\ published[e].username = sockets[c].username
        /\ \E e \in DOMAIN published :
               e > sockets[c].since /\ published[e].username # sockets[c].username

\* C16: one call of _get_monthly_games sends at most 3 HTTP requests, every
\* request but the last was answered 429 or 5xx, and a call whose last
\* request failed in that way returns no games.
C16_AtMostThreeRequests ==
    /\ http.sent <= 3
    /\ \A i \in 1..(Len(http.responses) - 1) :
          http.responses[i] = 429 \/ http.responses[i] \in 500..599
    /\ (http.state = "done" /\ Retryable(http.responses[Len(http.responses)]))
          => http.outcome = "empty"

\* C17: for the score of the position after the move, eval_after_mover is
\* the negation of eval_after_board and swing = eval_after_mover -
\* eval_before; a mate in m moves is 10000 - 100 m for the side that mates
\* and -10000 + 100 m for the side being mated, m = 0 (the side to move is
\* checkmated, the mover mates) included.
C17_MoverEvalIsNegation ==
    unit.state \in {"analysed", "puzzled"}
        => /\ unit.eval_after_mover = -unit.eval_after_board
           /\ unit.eval_swing = unit.eval_after_mover - unit.eval_before
           /\ unit.after.kind = "mate"
                 => LET m == Abs(unit.after.n)
                    IN unit.eval_after_mover =
                           IF unit.after.n <= 0 THEN 10000 - 100 * m
                                                ELSE -10000 + 100 * m

\* C18: the strength of a puzzle is the bucket of |swing| of its source
\* move (<100: 1, <200: 2, <300: 3, <500: 4, otherwise 5) and lies in 1..5.
C18_StrengthIsSwingBucket ==
    unit.state = "puzzled"
        => LET a == Abs(unit.eval_swing)
           IN /\ unit.strength \in 1..5
              /\ unit.strength =
                     IF a < 100 THEN 1
                     ELSE IF a < 200 THEN 2
                     ELSE IF a < 300 THEN 3
                     ELSE IF a < 500 THEN 4
                     ELSE 5

\* C19: the mistake tag of a ply is none for |swing| < 90, inaccuracy for
\* 90 <= |swing| < 150, mistake for 150 <= |swing| < 200 and blunder for
\* |swing| >= 200, and the swing of opposite sign is classified alike.
C19_ClassifyMistakeBuckets ==
    unit.state \in {"analysed", "puzzled"}
        => LET a == Abs(unit.eval_swing)
           IN /\ a < 90 => unit.mistake_tag = "none"
              /\ (90 <= a /\ a < 150) => unit.mistake_tag = "inaccuracy"
              /\ (150 <= a /\ a < 200) => unit.mistake_tag = "mistake"
              /\ a >= 200 => unit.mistake_tag = "blunder"
              /\ classify_mistake(-unit.eval_swing) = unit.mistake_tag
              /\ classify_mistake(a) = unit.mistake_tag

\* eval_before = 50 and eval_after_mover = -160: swing -210, a blunder
C19_Witness ==
    /\ unit.state = "analysed"
    /\ unit.eval_before = 50
    /\ unit.eval_after_mover = -160
    /\ unit.eval_swing = -210
    /\ unit.mistake_tag = "blunder"

\* C20: the motif of a puzzle is the tag of the first of check, capture,
\* fork, back-rank that holds of its best move, "tactics" when none holds;
\* a best move that gives check is tagged "check".
C20_MotifFirstMatch ==
    unit.state = "puzzled"
        => /\ unit.motif =
                  IF unit.check THEN "check"
                  ELSE IF unit.capture THEN "capture"
                  ELSE IF unit.fork THEN "fork"
                  ELSE IF is_back_rank_mate(unit.check, unit.king) THEN "back-rank"
                  ELSE "tactics"
           /\ unit.check => unit.motif = "check"

\* a best move that gives check and captures, the king on its home rank,
\* was tagged "check"
C20_Witness ==
    /\ unit.state = "puzzled"
    /\ unit.check
    /\ unit.capture
    /\ unit.king = 60
    /\ is_back_rank_mate(unit.check, unit.king)
    /\ unit.motif = "check"

\* C21: a blunder at ply 1 yields no puzzle, with or without a recorded
\* best move and whichever piece the blunder moved.
C21_NoPuzzleAtPlyOne ==
    (unit.state \in {"puzzled", "no puzzle"} /\ unit.ply = 1)
        => unit.state = "no puzzle"

\* a blunder at ply 1 with a recorded best move, of a piece the blunder
\* left where it was, was handed to _create_puzzle_from_blunder and
\* yielded nothing
C21_Witness ==
    /\ unit.state = "no puzzle"
    /\ unit.ply = 1
    /\ unit.mistake_tag = "blunder"
    /\ unit.best
    /\ ~unit.moved

\* C22: every job row committed as running eventually shows status
\* completed or failed, and no worker function has ended while the row of
\* its job still shows running.
C22_JobsTerminate ==
    /\ \A j \in 1..MaxRuns :
          (j \in DOMAIN ledger)
              ~> (j \in DOMAIN ledger /\ ledger[j].status \in Terminal)
    /\ [](\A w \in Workers : Finished(w) => Job(w).status \in Terminal)

\* C24: in every committed state of a running job with total_items > 0,
\* progress = floor(100 * processed_items / total_items) and
\* 0 <= processed_items <= total_items.
C24_ProgressIsFloor ==
    (tally.state = "counting" /\ tally.total_items > 0)
        => /\ tally.progress = (100 * tally.processed_items) \div tally.total_items
           /\ 0 <= tally.processed_items
           /\ tally.processed_items <= tally.total_items

\* C23: every job row is first committed with status pending and becomes
\* running only through a later start step: a row shows pending, then
\* running, then completed or failed, and no row is created running.
C23_PendingThenRunning ==
    [][\A j \in DOMAIN ledger' :
          IF j \in DOMAIN ledger
          THEN \/ ledger'[j].status = ledger[j].status
               \/ ledger[j].status = "pending" /\ ledger'[j].status = "running"
               \/ ledger[j].status = "running" /\ ledger'[j].status \in Terminal
          ELSE ledger'[j].status = "pending"]_vars

\* C25: when the analysis of a game aborts at a ply k >= 2, after at least
\* one ply was evaluated, the job persists no Move row for the game and does
\* not count it as analysed (so that a later run still selects the game).
C25_AbortedGameNotPersisted ==
    [][\A w \in Workers :
          (/\ pc[w] = "a_save"
           /\ pc'[w] = "a_update"
           /\ (idx[w] + 1) \in hist[w].failedGames)
              => /\ moves' = moves
                 /\ count'[w] = count[w]]_vars

\* C26: a puzzle job sets total_items to the number of blunders lacking a
\* puzzle before it processes them, and after each blunder processed it
\* commits the count to its ledger row.
C26_PuzzleJobCountsUnits ==
    /\ [](\A w \in Workers :
             (jid[w] > 0 /\ Job(w).job_type = "puzzle" /\ pc[w] = "p_loop"
                  /\ idx[w] = 0)
                 => Job(w).total_items =
                        Cardinality({i \in DOMAIN work[w] :
                                        ~ExistingPuzzle(work[w][i], puzzles)}))
    /\ [][\A w \in Workers :
             (pc[w] = "p_loop" /\ idx'[w] = idx[w] + 1)
                 => ledger'[jid[w]].processed_items = idx'[w]]_vars

\* C27: every progress event a job publishes carries the status, progress,
\* processed_items and total_items of the job's ledger row as last committed
\* before the publish; start, per-unit, completed and failed events alike.
C27_EventCarriesLedger ==
    [][\A w \in Workers :
          (jid'[w] = jid[w] /\ lastEvent'[w] # lastEvent[w])
              => lastEvent'[w] = Event(Job(w).status, Job(w).progress,
                                       Job(w).total_items,
                                       Job(w).processed_items)]_vars

\* C28: whenever a job's status is completed and its total_items is set,
\* processed_items equals total_items.
C28_CompletedCountsAll ==
    \A j \in DOMAIN ledger :
        (ledger[j].status = "completed" /\ ledger[j].total_items # NULL)
            => ledger[j].processed_items = ledger[j].total_items

\* C29: in every reachable state, also when two analyze_games jobs of the
\* subject interleave their select and save_moves steps, no game has two
\* persisted Move rows with the same ply.
C29_OneMoveRowPerPly ==
    \A a, b \in DOMAIN moves :
        (moves[a].game = moves[b].game /\ moves[a].ply = moves[b].ply) => a = b

\* C30: for every position and best move, _identify_motif returns one of
\* check, capture, fork or tactics: never back-rank, whose predicate needs a
\* check that the head of the chain has already matched, nor pin, skewer or
\* discovered-attack, whose predicates are always false.
C30_MotifOneOfFour ==
    unit.state = "puzzled"
        => unit.motif \in {"check", "capture", "fork", "tactics"}

\* a quiet best move that gives check while the king of the side that moved
\* stands on e1: the back-rank predicate holds of it and the motif is check
C30_Witness ==
    /\ unit.state = "puzzled"
    /\ ~unit.capture
    /\ ~unit.fork
    /\ unit.king = 4
    /\ is_back_rank_mate(unit.check, unit.king)
    /\ unit.motif = "check"

============================================================================
